---------------------------- MODULE Spec2Model ----------------------------
(***************************************************************************)
(* Model of the chunker and of the document splicer of the DevOps_learning *)
(* scripts (scripts/smart_learn.py, scripts/smart_learn_v3.py), of the     *)
(* per-chunk loop, of one invocation of main in add mode and in remove     *)
(* mode, of two invocations that run against the same file, of the         *)
(* normalisation of anchor ids, and of the topic registry and the topic    *)
(* files of smart_learn.py.                                                *)
(*                                                                         *)
(* A document (the text of DevOps_Notes.html) is a sequence of tokens.     *)
(* Each token stands for one piece of text that the regular expressions    *)
(* and substring tests of the splicer either match as a whole or skip:     *)
(*   secC   <section id="ID" class="section">                              *)
(*   secB   <section id="ID">              (a section tag without class)   *)
(*   div    <div id="ID">                  (another element with an id)    *)
(*   endsec </section>                                                     *)
(*   endul  </ul>      endnav </nav>      endmain </main>                  *)
(*   ws     a run of whitespace                                            *)
(*   li     <li><a href="#ID">TITLE</a></li>                               *)
(*   h2     <h2>N. TITLE</h2>                                              *)
(*   added  <!-- Added on TS -->                                           *)
(*   newsec <!-- New Section Added on TS -->                               *)
(*   p      a paragraph of text, labelled ID                               *)
(*   marker <!-- CONTENT_MARKER -->        (topic files of smart_learn.py) *)
(*   gen    a section written by generate_section_html                     *)
(* Anchor ids are kebab-case tokens (smart_learn_v3.py:162-171, 481-482,   *)
(* 748-750) and titles are derived from them: interpolated into a pattern  *)
(* they match literally, and into a replacement template they stand for    *)
(* themselves.                                                             *)
(***************************************************************************)
EXTENDS Integers, Sequences, FiniteSets, TLC

VARIABLES
    file,       \* the text of NOTES_FILE on disk
    hist,       \* the splicer calls made so far, each with its arguments and result
    now,        \* the minute datetime.now() was last read in (0: not read yet)
    content,    \* the chunker's input text
    chunk_size, \* the chunker's size limit
    chunks,     \* the chunker's call: whether made, by which script, and its result
    procs,      \* two concurrent invocations of main: where each one is, what it read
    loop,       \* the per-chunk loop of one invocation: chunks submitted, fragments kept
    session,    \* one invocation of main: its arguments, its steps, how it ended
    topics      \* smart_learn.py: the registry DEVOPS_TOPICS and the file of one topic

vars == <<file, hist, now, content, chunk_size, chunks, procs, loop, session, topics>>

(***************************************************************************)
(* Tokens                                                                  *)
(***************************************************************************)
Tok(k, id, t, n) == [k |-> k, id |-> id, t |-> t, n |-> n]

SecC(id) == Tok("secC", id, "", 0)
SecB(id) == Tok("secB", id, "", 0)
Div(id) == Tok("div", id, "", 0)
EndSec == Tok("endsec", "", "", 0)
EndUl == Tok("endul", "", "", 0)
EndNav == Tok("endnav", "", "", 0)
EndMain == Tok("endmain", "", "", 0)
WS == Tok("ws", "", "", 0)
Li(id, t) == Tok("li", id, t, 0)
H2(n, t) == Tok("h2", "", t, n)
Added(ts) == Tok("added", "", "", ts)
NewSec(ts) == Tok("newsec", "", "", ts)
P(id) == Tok("p", id, "", 0)

\* The anchor ids the calls are made with (the documents also hold a section
\* "linux"), and the fragments.
Ids == {"git", "docker"}
PlainFragment == <<P("tip")>>
SectionFragment == <<SecC("docker"), P("nested"), EndSec>>
ShellFragment == <<EndUl, EndNav, P("page"), EndMain>>
Fragments == {PlainFragment, SectionFragment, ShellFragment}

\* section_id.replace("-", " ").title()
section_name(id) ==
    CASE id = "git" -> "Git" [] id = "docker" -> "Docker" [] id = "linux" -> "Linux"

(***************************************************************************)
(* find_section_in_file: the substring test  id="ID" in content.           *)
(* The text id="ID" occurs in the tokens that carry an id attribute.       *)
(***************************************************************************)
CarriesIdAttr(tok, id) == tok.k \in {"secC", "secB", "div"} /\ tok.id = id

\* (variant: only the section tag that create_new_section writes is looked for)
find_section_in_file_class_only(text, section_id) ==
    \E i \in 1..Len(text) : text[i] = SecC(section_id)

find_section_in_file(text, section_id) ==
    \E i \in 1..Len(text) : CarriesIdAttr(text[i], section_id)

(***************************************************************************)
(* add_content_to_section                                                  *)
(***************************************************************************)
\* <section id="ID"[^>]*>
OpensSection(tok, id) == tok.k \in {"secC", "secB"} /\ tok.id = id

\* The first position >= i of a token opening section id, or 0.
NextOpen(text, i, id) ==
    LET S == {p \in i..Len(text) : OpensSection(text[p], id)}
    IN  IF S = {} THEN 0 ELSE CHOOSE p \in S : \A r \in S : p <= r

\* .*?(</section>) : the nearest closing tag after position p, or 0.
NextClose(text, p) ==
    LET S == {q \in (p + 1)..Len(text) : text[q].k = "endsec"}
    IN  IF S = {} THEN 0 ELSE CHOOSE q \in S : \A r \in S : q <= r

\* replace_section: '\n    <!-- Added on {timestamp} -->\n{new_content}\n    '
\* (the matches of one call are replaced within the same minute)
\* (variant: the addition without its timestamp comment)
Addition_no_timestamp(new_content, ts) == <<WS>> \o new_content \o <<WS>>

\* (variant: the timestamp comment after the content)
Addition_timestamp_last(new_content, ts) == <<WS>> \o new_content \o <<WS, Added(ts), WS>>

Addition(new_content, ts) == <<WS, Added(ts), WS>> \o new_content \o <<WS>>

\* re.subn(section_pattern, replace_section, content, flags=re.DOTALL) from
\* position i on: every non-overlapping match, left to right, is replaced by
\* group 1 + addition + group 2.
RECURSIVE subn(_, _, _, _)
subn(text, id, addition, i) ==
    LET p == NextOpen(text, i, id)
        q == IF p = 0 THEN 0 ELSE NextClose(text, p)
    IN  IF p = 0 \/ q = 0
        THEN [text |-> SubSeq(text, i, Len(text)), count |-> 0]
        ELSE LET rest == subn(text, id, addition, q + 1)
             IN  [text |-> SubSeq(text, i, q - 1) \o addition \o <<text[q]>> \o rest.text,
                  count |-> rest.count + 1]

\* The whole function: what it writes (the file is left alone when count = 0)
\* and what it returns.
\* (variant: the function reports success whatever the count)
add_content_to_section_returns_true(text, section_id, new_content, ts) ==
    LET r == subn(text, section_id, Addition(new_content, ts), 1)
    IN  [file |-> r.text, wrote |-> r.count > 0, ret |-> TRUE]

add_content_to_section(text, section_id, new_content, ts) ==
    LET r == subn(text, section_id, Addition(new_content, ts), 1)
    IN  IF r.count > 0
        THEN [file |-> r.text, wrote |-> TRUE, ret |-> TRUE]
        ELSE [file |-> text, wrote |-> FALSE, ret |-> FALSE]

(***************************************************************************)
(* create_new_section                                                      *)
(***************************************************************************)
\* len(re.findall(r'<section id="[^"]*" class="section">', content))
RECURSIVE section_count(_)
section_count(text) ==
    IF text = <<>> THEN 0
    ELSE (IF Head(text).k = "secC" THEN 1 ELSE 0) + section_count(Tail(text))

\* The end of a match of (</ul>\s*</nav>) starting at position i, or 0.
RECURSIVE SkipWs(_, _)
SkipWs(text, j) ==
    IF j <= Len(text) /\ text[j].k = "ws" THEN SkipWs(text, j + 1) ELSE j

TocMatchEnd(text, i) ==
    IF text[i].k # "endul" THEN 0
    ELSE LET j == SkipWs(text, i + 1)
         IN  IF j <= Len(text) /\ text[j].k = "endnav" THEN j ELSE 0

\* toc_entry + r'            \1', toc_entry being '    <li><a href=...>...</a></li>\n'
TocInsert(section_id, section_title) == <<WS, Li(section_id, section_title), WS>>

\* (variant: the match is written back as '</ul></nav>', not as group 1)
RECURSIVE toc_sub_rewrites_marker(_, _, _)
toc_sub_rewrites_marker(text, ins, i) ==
    IF i > Len(text) THEN <<>>
    ELSE LET e == TocMatchEnd(text, i)
         IN  IF e = 0 THEN <<text[i]>> \o toc_sub_rewrites_marker(text, ins, i + 1)
             ELSE ins \o <<EndUl, EndNav>> \o toc_sub_rewrites_marker(text, ins, e + 1)

\* re.sub(toc_pattern, toc_entry + r'            \1', content) from position i on.
RECURSIVE toc_sub(_, _, _)
toc_sub(text, ins, i) ==
    IF i > Len(text) THEN <<>>
    ELSE LET e == TocMatchEnd(text, i)
         IN  IF e = 0 THEN <<text[i]>> \o toc_sub(text, ins, i + 1)
             ELSE ins \o SubSeq(text, i, e) \o toc_sub(text, ins, e + 1)

\* new_section
new_section_block(section_id, section_num, section_title, new_content, ts) ==
    <<WS, NewSec(ts), WS, SecC(section_id), WS, H2(section_num, section_title), WS>>
        \o new_content \o <<WS, EndSec, WS>>

\* content.replace('</main>', new_section + '        </main>')
RECURSIVE main_replace(_, _)
main_replace(text, block) ==
    IF text = <<>> THEN <<>>
    ELSE (IF Head(text).k = "endmain" THEN block \o <<WS, EndMain>> ELSE <<Head(text)>>)
             \o main_replace(Tail(text), block)

\* (variant: the ordinal is the count itself, not the count plus one)
create_new_section_ordinal_off(text, section_id, section_title, new_content, ts) ==
    LET section_num == section_count(text)
        block == new_section_block(section_id, section_num, section_title, new_content, ts)
        withToc == toc_sub(text, TocInsert(section_id, section_title), 1)
    IN  [file |-> main_replace(withToc, block), wrote |-> TRUE, ret |-> TRUE]

\* (variant: nothing is created when the document carries the id)
create_new_section_if_absent(text, section_id, section_title, new_content, ts) ==
    LET section_num == section_count(text) + 1
        block == new_section_block(section_id, section_num, section_title, new_content, ts)
        withToc == toc_sub(text, TocInsert(section_id, section_title), 1)
    IN  IF find_section_in_file(text, section_id)
        THEN [file |-> text, wrote |-> FALSE, ret |-> FALSE]
        ELSE [file |-> main_replace(withToc, block), wrote |-> TRUE, ret |-> TRUE]

create_new_section(text, section_id, section_title, new_content, ts) ==
    LET section_num == section_count(text) + 1
        block == new_section_block(section_id, section_num, section_title, new_content, ts)
        withToc == toc_sub(text, TocInsert(section_id, section_title), 1)
    IN  [file |-> main_replace(withToc, block), wrote |-> TRUE, ret |-> TRUE]

(***************************************************************************)
(* chunk_content.  A text is a sequence of characters; the characters that *)
(* matter to the chunker are the newline, other whitespace and the rest.   *)
(***************************************************************************)
NL == "\n"
Whitespace == {NL, " "}
Chars == {"a", "b", " ", NL}

\* content.split('\n\n'): the pieces between the non-overlapping occurrences
\* of the delimiter, found left to right.
FirstDelim(s) ==
    LET S == {p \in 1..(Len(s) - 1) : s[p] = NL /\ s[p + 1] = NL}
    IN  IF S = {} THEN 0 ELSE CHOOSE p \in S : \A r \in S : p <= r

RECURSIVE split(_)
split(s) ==
    LET p == FirstDelim(s)
    IN  IF p = 0 THEN <<s>>
        ELSE <<SubSeq(s, 1, p - 1)>> \o split(SubSeq(s, p + 2, Len(s)))

\* str.strip()
RECURSIVE lstrip(_)
lstrip(s) == IF s # <<>> /\ Head(s) \in Whitespace THEN lstrip(Tail(s)) ELSE s

RECURSIVE rstrip(_)
rstrip(s) ==
    IF s # <<>> /\ s[Len(s)] \in Whitespace THEN rstrip(SubSeq(s, 1, Len(s) - 1)) ELSE s

strip(s) == lstrip(rstrip(s))

\* (variant: the buffer is emitted with its trailing delimiter)
RECURSIVE accumulate_unstripped(_, _, _, _, _)
accumulate_unstripped(paragraphs, i, size, out, current_chunk) ==
    IF i > Len(paragraphs)
    THEN IF current_chunk # <<>> THEN Append(out, current_chunk) ELSE out
    ELSE LET para == paragraphs[i]
         IN  IF Len(current_chunk) + Len(para) < size
             THEN accumulate_unstripped(paragraphs, i + 1, size, out,
                                        current_chunk \o para \o <<NL, NL>>)
             ELSE accumulate_unstripped(paragraphs, i + 1, size,
                                        IF current_chunk # <<>> THEN Append(out, current_chunk)
                                        ELSE out,
                                        para \o <<NL, NL>>)

\* The loop over the paragraphs from the i-th on, with the chunks emitted so
\* far and the running buffer; then the flush of the buffer.
RECURSIVE accumulate(_, _, _, _, _)
accumulate(paragraphs, i, size, out, current_chunk) ==
    IF i > Len(paragraphs)
    THEN IF current_chunk # <<>> THEN Append(out, strip(current_chunk)) ELSE out
    ELSE LET para == paragraphs[i]
         IN  IF Len(current_chunk) + Len(para) < size
             THEN accumulate(paragraphs, i + 1, size, out, current_chunk \o para \o <<NL, NL>>)
             ELSE accumulate(paragraphs, i + 1, size,
                             IF current_chunk # <<>> THEN Append(out, strip(current_chunk)) ELSE out,
                             para \o <<NL, NL>>)

\* current_chunk after the paragraphs of a run were added: para + "\n\n" each.
RECURSIVE Concat_paragraphs(_)
Concat_paragraphs(run) ==
    IF run = <<>> THEN <<>> ELSE Head(run) \o <<NL, NL>> \o Concat_paragraphs(Tail(run))

\* (variant: a paragraph joins the buffer only when two more characters fit)
RECURSIVE runs_leaving_room(_, _, _, _, _)
runs_leaving_room(paragraphs, i, size, out, run) ==
    IF i > Len(paragraphs)
    THEN IF run # <<>> THEN Append(out, run) ELSE out
    ELSE LET para == paragraphs[i]
             current_chunk == Concat_paragraphs(run)
         IN  IF Len(current_chunk) + Len(para) + 2 < size
             THEN runs_leaving_room(paragraphs, i + 1, size, out, Append(run, para))
             ELSE runs_leaving_room(paragraphs, i + 1, size,
                                    IF run # <<>> THEN Append(out, run) ELSE out, <<para>>)

\* The same loop, keeping the paragraphs that each buffer holds: the runs of
\* paragraphs that become the chunks (current_chunk is the paragraphs of the
\* run, each followed by the delimiter).
RECURSIVE runs(_, _, _, _, _)
runs(paragraphs, i, size, out, run) ==
    IF i > Len(paragraphs)
    THEN IF run # <<>> THEN Append(out, run) ELSE out
    ELSE LET para == paragraphs[i]
             current_chunk == Concat_paragraphs(run)
         IN  IF Len(current_chunk) + Len(para) < size
             THEN runs(paragraphs, i + 1, size, out, Append(run, para))
             ELSE runs(paragraphs, i + 1, size,
                       IF run # <<>> THEN Append(out, run) ELSE out, <<para>>)

\* (variant: the slices start chunk_size + 1 characters apart)
RECURSIVE slices_stepping_over(_, _)
slices_stepping_over(chunk, size) ==
    IF Len(chunk) <= size THEN <<chunk>>
    ELSE <<SubSeq(chunk, 1, size)>>
             \o slices_stepping_over(SubSeq(chunk, size + 2, Len(chunk)), size)

\* for i in range(0, len(chunk), chunk_size): chunk[i:i+chunk_size]
RECURSIVE slices(_, _)
slices(chunk, size) ==
    IF Len(chunk) <= size THEN <<chunk>>
    ELSE <<SubSeq(chunk, 1, size)>> \o slices(SubSeq(chunk, size + 1, Len(chunk)), size)

\* (variant: chunks over the limit are left whole, as in smart_learn_v3.py)
force_split_skipped(cs, size) == cs

RECURSIVE force_split(_, _)
force_split(cs, size) ==
    IF cs = <<>> THEN <<>>
    ELSE (IF Len(Head(cs)) > size THEN slices(Head(cs), size) ELSE <<Head(cs)>>)
             \o force_split(Tail(cs), size)

\* (variant: a short text is trimmed like the accumulated chunks)
chunk_content_stripped(text, size) ==
    IF Len(text) <= size THEN <<strip(text)>>
    ELSE force_split(accumulate(split(text), 1, size, <<>>, <<>>), size)

\* smart_learn.py chunk_content(content, chunk_size)
chunk_content(text, size) ==
    IF Len(text) <= size THEN <<text>>
    ELSE force_split(accumulate(split(text), 1, size, <<>>, <<>>), size)

\* smart_learn_v3.py chunk_content(content), size standing for CHUNK_SIZE
chunk_content_v3(text, size) ==
    IF Len(text) <= size THEN <<text>>
    ELSE accumulate(split(text), 1, size, <<>>, <<>>)

(***************************************************************************)
(* The documents a run starts from: a head, the table of contents with its *)
(* closing </ul> </nav> (or without it), up to two blocks in the content   *)
(* container, and the closing </main> (or none).                           *)
(***************************************************************************)
ClassBlock(id, n) == <<SecC(id), H2(n, section_name(id)), P("old"), EndSec>>
BareBlock(id) == <<SecB(id), P("old"), EndSec>>
DivBlock(id) == <<Div(id), P("old")>>
NestedBody ==
    <<SecC("git"), H2(1, "Git"), SecB("docker"), P("inner"), EndSec, P("old"), EndSec>>
Bodies ==
    {<<>>, ClassBlock("git", 1), ClassBlock("docker", 1), ClassBlock("linux", 1),
     BareBlock("git"), DivBlock("git"),
     ClassBlock("git", 1) \o ClassBlock("docker", 2),
     ClassBlock("git", 1) \o ClassBlock("git", 2),
     BareBlock("docker") \o ClassBlock("git", 2),
     DivBlock("docker") \o ClassBlock("docker", 2),
     NestedBody}

Navs == {<<EndUl, WS, EndNav>>, <<>>}
Mains == {<<EndMain>>, <<>>}

\* The table-of-contents entries of the sections of a body.
RECURSIVE TocOf(_)
TocOf(body) ==
    IF body = <<>> THEN <<>>
    ELSE (IF Head(body).k \in {"secC", "secB"}
          THEN <<Li(Head(body).id, section_name(Head(body).id))>> ELSE <<>>)
             \o TocOf(Tail(body))

Doc(nav, body, main) == <<P("head")>> \o TocOf(body) \o nav \o body \o main

\* Every body in a well-formed shell; the shells that lack a closing marker
\* with no section and with one.
MalformedShells == {<<nav, main>> : nav \in Navs, main \in Mains} \ {<<<<EndUl, WS, EndNav>>, <<EndMain>>>>}
InitDocs ==
    {Doc(<<EndUl, WS, EndNav>>, body, <<EndMain>>) : body \in Bodies}
        \cup {Doc(sh[1], body, sh[2]) : sh \in MalformedShells,
                                       body \in {<<>>, ClassBlock("git", 1)}}
EmptyShell == Doc(<<EndUl, WS, EndNav>>, <<>>, <<EndMain>>)

\* Bounds: the splicer calls of one run, the length of the chunker's input and
\* the largest size limit tried.
MaxOps == 2
MaxLen == 5
MaxChunkSize == 3

RECURSIVE SeqsUpTo(_, _)
SeqsUpTo(S, n) ==
    IF n = 0 THEN {<<>>}
    ELSE LET shorter == SeqsUpTo(S, n - 1)
         IN  shorter \cup {Append(s, c) : s \in {x \in shorter : Len(x) = n - 1}, c \in S}

NotChunked == [called |-> FALSE, by |-> "", out |-> <<>>]
NoProcs == <<>>
NoLoop == <<>>
NotStarted == <<>>
NoTopics == <<>>

(***************************************************************************)
(* The splicer: calls of find_section_in_file, add_content_to_section and  *)
(* create_new_section against the file.                                    *)
(***************************************************************************)
Call(op, id, title, frag, ts, r) ==
    [op |-> op, id |-> id, title |-> title, frag |-> frag, ts |-> ts,
     pre |-> file, post |-> r.file, wrote |-> r.wrote, ret |-> r.ret]

Init ==
    /\ file \in InitDocs
    /\ hist = <<>>
    /\ now = 0
    /\ topics = NoTopics
    /\ content = <<>>
    /\ chunk_size = 1
    /\ chunks = NotChunked
    /\ procs = NoProcs
    /\ loop = NoLoop
    /\ session = NotStarted

FindSection(id) ==
    /\ Len(hist) < MaxOps
    /\ hist' = Append(hist, Call("find", id, "", <<>>, 0,
                                 [file |-> file, wrote |-> FALSE,
                                  ret |-> find_section_in_file(file, id)]))
    /\ UNCHANGED <<file, now, content, chunk_size, chunks, procs, loop, session, topics>>

\* datetime.now() is read in the minute of the previous reading or in a later
\* one; minutes are counted from the first reading.
Readings == IF now = 0 THEN {1} ELSE {now, now + 1}

AddContent(id, frag, ts) ==
    /\ Len(hist) < MaxOps
    /\ now' = ts
    /\ LET r == add_content_to_section(file, id, frag, ts)
       IN  /\ file' = r.file
           /\ hist' = Append(hist, Call("add", id, "", frag, ts, r))
    /\ UNCHANGED <<content, chunk_size, chunks, procs, loop, session, topics>>

CreateSection(id, frag, ts) ==
    /\ Len(hist) < MaxOps
    /\ now' = ts
    /\ LET r == create_new_section(file, id, section_name(id), frag, ts)
       IN  /\ file' = r.file
           /\ hist' = Append(hist, Call("create", id, section_name(id), frag, ts, r))
    /\ UNCHANGED <<content, chunk_size, chunks, procs, loop, session, topics>>

Next ==
    \/ \E id \in Ids : FindSection(id)
    \/ \E id \in Ids, frag \in Fragments, ts \in Readings : AddContent(id, frag, ts)
    \/ \E id \in Ids, frag \in Fragments, ts \in Readings : CreateSection(id, frag, ts)

Spec == Init /\ [][Next]_vars

(***************************************************************************)
(* The chunker: one call of chunk_content of either script on a text.      *)
(***************************************************************************)
InitChunk ==
    /\ file = EmptyShell
    /\ hist = <<>>
    /\ now = 0
    /\ topics = NoTopics
    /\ content \in SeqsUpTo(Chars, MaxLen)
    /\ chunk_size \in 1..MaxChunkSize
    /\ chunks = NotChunked
    /\ procs = NoProcs
    /\ loop = NoLoop
    /\ session = NotStarted

ChunkV1 ==
    /\ ~chunks.called
    /\ chunks' = [called |-> TRUE, by |-> "smart_learn",
                  out |-> chunk_content(content, chunk_size)]
    /\ UNCHANGED <<file, hist, now, content, chunk_size, procs, loop, session, topics>>

ChunkV3 ==
    /\ ~chunks.called
    /\ chunks' = [called |-> TRUE, by |-> "smart_learn_v3",
                  out |-> chunk_content_v3(content, chunk_size)]
    /\ UNCHANGED <<file, hist, now, content, chunk_size, procs, loop, session, topics>>

NextChunk == ChunkV1 \/ ChunkV3

SpecChunk == InitChunk /\ [][NextChunk]_vars

(***************************************************************************)
(* Vocabulary of the properties                                            *)
(***************************************************************************)
LastCall == hist[Len(hist)]
Called(op) == hist # <<>> /\ LastCall.op = op

IsOpener(tok) == tok.k \in {"secC", "secB"}
Openers(text) == {i \in 1..Len(text) : IsOpener(text[i])}
OpenersOf(text, id) == {i \in Openers(text) : text[i].id = id}
Closers(text) == {i \in 1..Len(text) : text[i].k = "endsec"}
TocClosers(text) ==
    {i \in 1..Len(text) : text[i].k = "endul" /\
        \E j \in (i + 1)..Len(text) :
            text[j].k = "endnav" /\ \A m \in (i + 1)..(j - 1) : text[m].k = "ws"}
MainClosers(text) == {i \in 1..Len(text) : text[i].k = "endmain"}
NoSectionMarkers(frag) == \A i \in 1..Len(frag) : frag[i].k \notin {"secC", "secB", "endsec"}

\* C1: add_content_to_section on a document with no section-opening marker
\* carrying the anchor id returns False and leaves the file as it was.
C1_AppendWithoutSectionFails ==
    (Called("add") /\ OpenersOf(LastCall.pre, LastCall.id) = {})
        => (LastCall.ret = FALSE /\ file = LastCall.pre)

\* The case of C1 in which another element carries the id.
C1_Witness ==
    /\ Called("add")
    /\ OpenersOf(LastCall.pre, LastCall.id) = {}
    /\ find_section_in_file(LastCall.pre, LastCall.id)
    /\ LastCall.ret = FALSE

\* Sections do not nest: every opening marker is followed by a closing marker
\* with no marker in between, and every closing marker closes such a section.
NonNested(text) ==
    /\ \A p \in Openers(text) : \E q \in Closers(text) :
          q > p /\ \A m \in (p + 1)..(q - 1) : m \notin Openers(text) \cup Closers(text)
    /\ \A q \in Closers(text) : \E p \in Openers(text) :
          p < q /\ \A m \in (p + 1)..(q - 1) : m \notin Openers(text) \cup Closers(text)

Occurrences(text, piece) ==
    Cardinality({i \in 1..(Len(text) - Len(piece) + 1) :
                    SubSeq(text, i, i + Len(piece) - 1) = piece})

\* The nearest closing marker after position p.
ClosingOf(text, p) == CHOOSE q \in Closers(text) : q > p /\ \A r \in Closers(text) : r > p => q <= r

C2_Case ==
    /\ Called("add")
    /\ NonNested(LastCall.pre)
    /\ Cardinality(OpenersOf(LastCall.pre, LastCall.id)) = 1
    /\ NoSectionMarkers(LastCall.frag)

\* The fragment, preceded by the timestamp comment, stands directly before the
\* nearest closing marker of the section id and after its opening marker.
FragmentPlaced(text, id, frag, ts) ==
    \E p \in OpenersOf(text, id) :
        LET q == ClosingOf(text, p)
            n == Len(frag)
        IN  /\ q - n - 3 > p
            /\ text[q - 1].k = "ws"
            /\ SubSeq(text, q - n - 1, q - 2) = frag
            /\ text[q - n - 2].k = "ws"
            /\ text[q - n - 3] = Added(ts)

\* C2 as stated: on a document with non-nested sections, one of them carrying
\* the anchor id, appending a fragment without section markers gives a document
\* in which the fragment appears exactly once, between the section's opening
\* marker and directly before its nearest closing marker, after the timestamp
\* comment, with as many section-opening markers as before.
C2_FragmentAppearsExactlyOnce ==
    C2_Case =>
        /\ LastCall.ret = TRUE
        /\ Occurrences(file, LastCall.frag) = 1
        /\ FragmentPlaced(file, LastCall.id, LastCall.frag, LastCall.ts)
        /\ Cardinality(Openers(file)) = Cardinality(Openers(LastCall.pre))

\* C2 amended: in that case the call succeeds and the file is the document with
\* exactly one insertion (whitespace, timestamp comment, whitespace, fragment,
\* whitespace) directly before the nearest closing marker of the section, so
\* the fragment stands between the section's markers, after the timestamp
\* comment, and the number of section-opening markers is unchanged.
C2_FragmentInsertedOnce ==
    C2_Case =>
        LET pre == LastCall.pre
            p == CHOOSE x \in OpenersOf(pre, LastCall.id) : TRUE
            q == ClosingOf(pre, p)
        IN  /\ LastCall.ret = TRUE
            /\ file = SubSeq(pre, 1, q - 1)
                        \o <<WS, Added(LastCall.ts), WS>> \o LastCall.frag \o <<WS>>
                        \o SubSeq(pre, q, Len(pre))
            /\ FragmentPlaced(file, LastCall.id, LastCall.frag, LastCall.ts)
            /\ Cardinality(Openers(file)) = Cardinality(Openers(pre))

\* The case of C2 on a document with two sections that already holds the fragment.
C2_Witness ==
    /\ C2_Case
    /\ Cardinality(Openers(LastCall.pre)) = 2
    /\ Occurrences(LastCall.pre, LastCall.frag) = 1
    /\ LastCall.ret = TRUE
    /\ Occurrences(file, LastCall.frag) = 2

\* C3: on a document without the ToC closing marker or without </main>,
\* create_new_section does not return True and writes nothing.
C3_CreateFailsOnMalformedDocument ==
    (Called("create") /\ (TocClosers(LastCall.pre) = {} \/ MainClosers(LastCall.pre) = {}))
        => (LastCall.ret # TRUE /\ ~LastCall.wrote /\ file = LastCall.pre)

TocEntries(text, id) == {i \in 1..Len(text) : text[i].k = "li" /\ text[i].id = id}
TocMatched(text) ==
    \A i \in 1..Len(text) : text[i].k = "li" => OpenersOf(text, text[i].id) # {}
File0 == IF hist = <<>> THEN file ELSE hist[1].pre

\* C4: create_new_section adds the ToC entry and the section block together or
\* adds neither and leaves the file as it was; so a document in which every ToC
\* entry has its section keeps that property through every sequence of calls.
C4_CreateIsAtomic ==
    /\ Called("create") =>
          LET pre == LastCall.pre
              id == LastCall.id
          IN  \/ /\ Cardinality(TocEntries(file, id)) > Cardinality(TocEntries(pre, id))
                 /\ Cardinality(OpenersOf(file, id)) > Cardinality(OpenersOf(pre, id))
              \/ file = pre
    /\ TocMatched(File0) => TocMatched(file)

\* C5: find_section_in_file called right after create_new_section with the
\* same anchor id returns True.
C5_CreatedSectionIsFound ==
    \A i \in 1..(Len(hist) - 1) :
        (hist[i].op = "create" /\ hist[i + 1].op = "find" /\ hist[i + 1].id = hist[i].id)
            => hist[i + 1].ret = TRUE

\* C7: find_section_in_file returns True exactly when a section-opening marker
\* carries the anchor id.
C7_FoundIffSectionMarker ==
    Called("find") => (LastCall.ret <=> OpenersOf(LastCall.pre, LastCall.id) # {})

\* Section markers as create_new_section writes and counts them.
ClassOpeners(text) == {i \in 1..Len(text) : text[i].k = "secC"}
AllTocEntries(text) == {i \in 1..Len(text) : text[i].k = "li"}
WellFormed(text) == Cardinality(TocClosers(text)) = 1 /\ Cardinality(MainClosers(text)) = 1
NoShellMarkers(frag) ==
    ClassOpeners(frag) = {} /\ TocClosers(frag) = {} /\ MainClosers(frag) = {}

\* Only create_new_section was called, on a well-formed document, each time
\* with an anchor id that no section carried and no earlier call used.
C6_Case ==
    /\ hist # <<>>
    /\ WellFormed(File0)
    /\ \A i \in 1..Len(hist) :
          /\ hist[i].op = "create"
          /\ OpenersOf(File0, hist[i].id) = {}
          /\ \A j \in 1..(i - 1) : hist[j].id # hist[i].id

\* With k section markers before the n calls: k+n section blocks, n new ToC
\* entries, and the i-th created section headed by ordinal k+i and linked
\* from a ToC entry.
C6_Counts ==
    LET k == Cardinality(ClassOpeners(File0))
        n == Len(hist)
    IN  /\ Cardinality(ClassOpeners(file)) = k + n
        /\ Cardinality(AllTocEntries(file)) = Cardinality(AllTocEntries(File0)) + n
        /\ \A i \in 1..n :
              /\ Cardinality(TocEntries(file, hist[i].id)) = 1
              /\ \E p \in OpenersOf(file, hist[i].id) :
                    /\ file[p] = SecC(hist[i].id)
                    /\ file[p + 1].k = "ws"
                    /\ file[p + 2] = H2(k + i, hist[i].title)

\* C6 as stated: n successive create_new_section calls with distinct new
\* anchor ids on a well-formed document with k section markers give k+n
\* section blocks and n new ToC entries, the i-th section numbered k+i.
C6_OrdinalsFollowCount == C6_Case => C6_Counts

\* C6 amended: the same, for fragments that hold no section marker of the
\* form create_new_section counts, no ToC closing marker and no </main>.
C6_OrdinalsFollowCountPlainFragments ==
    (C6_Case /\ \A i \in 1..Len(hist) : NoShellMarkers(hist[i].frag)) => C6_Counts

\* Two sections created in a shell that held one section.
C6_Witness ==
    /\ C6_Case
    /\ \A i \in 1..Len(hist) : NoShellMarkers(hist[i].frag)
    /\ Len(hist) = 2
    /\ Cardinality(ClassOpeners(File0)) = 1
    /\ Cardinality(ClassOpeners(file)) = 3

UniqueAnchors(text) ==
    \A i \in Openers(text) : Cardinality(OpenersOf(text, text[i].id)) <= 1

\* C8 as stated: from a document with pairwise distinct section anchor ids,
\* after any calls with fragments that hold no section markers, every anchor
\* id is carried by at most one section-opening marker.
C8_AnchorsStayUnique ==
    (UniqueAnchors(File0) /\ \A i \in 1..Len(hist) : NoSectionMarkers(hist[i].frag))
        => UniqueAnchors(file)

\* The calls as main makes them: create_new_section only for an anchor id that
\* find_section_in_file does not find in the file; fragments without section
\* markers and without </main>.
C8_Case ==
    /\ UniqueAnchors(File0)
    /\ Cardinality(MainClosers(File0)) <= 1
    /\ \A i \in 1..Len(hist) :
          /\ NoSectionMarkers(hist[i].frag)
          /\ MainClosers(hist[i].frag) = {}
          /\ hist[i].op = "create" => ~find_section_in_file(hist[i].pre, hist[i].id)

\* C8 amended: from a document with pairwise distinct section anchor ids and
\* at most one </main>, after any calls in which create_new_section is called
\* only for an anchor id that find_section_in_file does not find, with
\* fragments that hold neither section markers nor </main>, every anchor id is
\* carried by at most one section-opening marker.
C8_AnchorsStayUniqueWhenCreateIsGuarded == C8_Case => UniqueAnchors(file)

\* A section created beside an existing one, then appended to.
C8_Witness ==
    /\ C8_Case
    /\ Len(hist) = 2
    /\ hist[1].op = "create" /\ hist[2].op = "add" /\ hist[2].ret = TRUE
    /\ Cardinality(Openers(File0)) = 1
    /\ Cardinality(Openers(file)) = 2

\* The text with ins inserted directly before each of the positions.
RECURSIVE InsertBefore(_, _, _, _)
InsertBefore(text, positions, ins, i) ==
    IF i > Len(text) THEN <<>>
    ELSE (IF i \in positions THEN ins ELSE <<>>) \o <<text[i]>>
             \o InsertBefore(text, positions, ins, i + 1)

\* Every token of a occurs in b, in the same order.
RECURSIVE IsSubsequence(_, _)
IsSubsequence(a, b) ==
    IF a = <<>> THEN TRUE
    ELSE IF b = <<>> THEN FALSE
    ELSE IF Head(a) = Head(b) THEN IsSubsequence(Tail(a), Tail(b))
    ELSE IsSubsequence(a, Tail(b))

\* The closing markers nearest after an opening marker that carries the id.
AddPoints(text, id) ==
    {q \in Closers(text) :
        \E p \in OpenersOf(text, id) :
            p < q /\ \A m \in (p + 1)..(q - 1) : m \notin Closers(text)}

AddedText(c) == <<WS, Added(c.ts), WS>> \o c.frag \o <<WS>>
TocText(c) == <<WS, Li(c.id, c.title), WS>>
BlockText(c, n) ==
    <<WS, NewSec(c.ts), WS, SecC(c.id), WS, H2(n, c.title), WS>> \o c.frag
        \o <<WS, EndSec, WS, WS>>

\* C9 as stated: the calls only insert; the original is retained in order, and
\* deleting the one insertion of an append, or the ToC entry and the section
\* block of a create, gives back the original.  (The create is taken on a
\* document that holds the ToC closing marker and </main>: what happens
\* without them is the subject of C3.)
C9_OneInsertionOnly ==
    hist # <<>> =>
        LET c == LastCall
        IN  /\ IsSubsequence(c.pre, file)
            /\ c.op = "find" => file = c.pre
            /\ (c.op = "add" /\ ~c.ret) => file = c.pre
            /\ (c.op = "add" /\ c.ret) =>
                  \E q \in 1..Len(c.pre) : file = InsertBefore(c.pre, {q}, AddedText(c), 1)
            /\ (c.op = "create" /\ TocClosers(c.pre) # {} /\ MainClosers(c.pre) # {}) =>
                  \E t \in 1..Len(c.pre) :
                      LET mid == InsertBefore(c.pre, {t}, TocText(c), 1)
                      IN  \E m \in 1..Len(mid), n \in 1..(Len(c.pre) + 1) :
                              file = InsertBefore(mid, {m}, BlockText(c, n), 1)

\* C9 amended: the calls only insert; the original is retained in order, and
\* the file is the original with the addition inserted before the nearest
\* closing marker of every section that carries the anchor id (append), or
\* with a ToC entry inserted before every ToC closing marker and a section
\* block before every </main> (create); nothing else differs.
C9_InsertionsOnly ==
    hist # <<>> =>
        LET c == LastCall
        IN  /\ IsSubsequence(c.pre, file)
            /\ c.op = "find" => file = c.pre
            /\ c.op = "add" =>
                  /\ file = InsertBefore(c.pre, AddPoints(c.pre, c.id), AddedText(c), 1)
                  /\ c.ret = (AddPoints(c.pre, c.id) # {})
            /\ c.op = "create" =>
                  LET mid == InsertBefore(c.pre, TocClosers(c.pre), TocText(c), 1)
                  IN  \E n \in 1..(Len(c.pre) + 1) :
                          file = InsertBefore(mid, MainClosers(mid), BlockText(c, n), 1)

\* A create on a well-formed document, then an append that inserts twice.
C9_Witness ==
    /\ Len(hist) = 2
    /\ hist[1].op = "create" /\ WellFormed(hist[1].pre)
    /\ hist[2].op = "add" /\ hist[2].ret = TRUE
    /\ Cardinality(AddPoints(hist[2].pre, hist[2].id)) = 2
    /\ file # hist[2].pre

(***************************************************************************)
(* Properties of the chunker (specification SpecChunk)                     *)
(***************************************************************************)
\* C10: for a text no longer than the size limit, chunk_content of either
\* script returns exactly one chunk, the text itself, untrimmed.
C10_ShortContentIsOneChunk ==
    (chunks.called /\ Len(content) <= chunk_size) => chunks.out = <<content>>

\* A text as long as the limit, with whitespace at its ends, chunked by the v3 script.
C10_Witness ==
    /\ chunks.called
    /\ chunks.by = "smart_learn_v3"
    /\ Len(content) = chunk_size
    /\ strip(content) # content
    /\ chunks.out = <<content>>

\* The paragraphs of the text: the pieces between the blank-line delimiters.
Paragraphs == split(content)
NoLongParagraph == \A i \in 1..Len(Paragraphs) : Len(Paragraphs[i]) <= chunk_size

\* The chunks from the i-th on occur in the text in order, each one starting
\* at or after position from, after the end of the one before it and at a
\* later position.
RECURSIVE OccurInOrder(_, _, _, _)
OccurInOrder(text, cs, i, from) ==
    IF i > Len(cs) THEN TRUE
    ELSE LET c == cs[i]
             step == IF Len(c) = 0 THEN 1 ELSE Len(c)
         IN  \E p \in from..(Len(text) + 1 - Len(c)) :
                 /\ SubSeq(text, p, p + Len(c) - 1) = c
                 /\ OccurInOrder(text, cs, i + 1, p + step)

\* C11: for a text longer than the size limit in which no paragraph is longer
\* than the limit, chunk_content of either script returns chunks no longer
\* than the limit that occur in the text at strictly increasing,
\* non-overlapping positions.
C11_ChunksFitAndKeepOrder ==
    (chunks.called /\ Len(content) > chunk_size /\ NoLongParagraph)
        => /\ \A i \in 1..Len(chunks.out) : Len(chunks.out[i]) <= chunk_size
           /\ OccurInOrder(content, chunks.out, 1, 1)

\* Two paragraphs that do not fit one chunk together, each emitted as a chunk
\* as long as the limit.
C11_Witness ==
    /\ chunks.called
    /\ Len(content) > chunk_size
    /\ NoLongParagraph
    /\ Len(Paragraphs) = 2
    /\ Len(chunks.out) = 2
    /\ \A i \in 1..2 : chunks.out[i] = Paragraphs[i] /\ Len(chunks.out[i]) = chunk_size


\* The number of slices of at most size characters that cover n characters.
Ceil(n, size) == (n + size - 1) \div size

\* A chunk cut into consecutive slices of exactly size characters, the last
\* one holding what remains.
Cut(chunk, size) ==
    [j \in 1..Ceil(Len(chunk), size) |->
        SubSeq(chunk, (j - 1) * size + 1,
               IF j * size < Len(chunk) THEN j * size ELSE Len(chunk))]

RECURSIVE CutLong(_, _)
CutLong(cs, size) ==
    IF cs = <<>> THEN <<>>
    ELSE (IF Len(Head(cs)) > size THEN Cut(Head(cs), size) ELSE <<Head(cs)>>)
             \o CutLong(Tail(cs), size)

Accumulated == accumulate(split(content), 1, chunk_size, <<>>, <<>>)
ByV1 == chunks.called /\ chunks.by = "smart_learn"
SingleLongParagraph == Len(content) > chunk_size /\ Len(Paragraphs) = 1

\* What C12 says of every input: no returned chunk is longer than the limit,
\* and for a text longer than the limit the result is the accumulated chunks
\* with every one longer than the limit cut into slices.
C12_ForceSplit ==
    /\ \A i \in 1..Len(chunks.out) : Len(chunks.out[i]) <= chunk_size
    /\ Len(content) > chunk_size => chunks.out = CutLong(Accumulated, chunk_size)

\* C12 as stated: in smart_learn.py every accumulated chunk longer than the
\* limit is cut into slices of exactly the limit, the last one shorter, no
\* returned chunk is longer than the limit, and a single paragraph of length
\* L over the limit yields ceil(L / limit) chunks.
C12_SingleParagraphOfLengthL ==
    ByV1 =>
        /\ C12_ForceSplit
        /\ SingleLongParagraph => Len(chunks.out) = Ceil(Len(content), chunk_size)

\* C12 amended: the same, the single paragraph yielding ceil(T / limit)
\* chunks for its length T after trimming, and one empty chunk when it is
\* all whitespace.
C12_SingleParagraphOfTrimmedLength ==
    ByV1 =>
        /\ C12_ForceSplit
        /\ SingleLongParagraph =>
              LET T == Len(strip(content))
              IN  Len(chunks.out) = (IF T = 0 THEN 1 ELSE Ceil(T, chunk_size))

\* A paragraph without whitespace at its ends cut into three slices, the
\* last one shorter.
C12_Witness ==
    /\ ByV1
    /\ SingleLongParagraph
    /\ strip(content) = content
    /\ Len(chunks.out) = 3
    /\ Len(chunks.out[1]) = chunk_size /\ Len(chunks.out[2]) = chunk_size
    /\ Len(chunks.out[3]) < chunk_size

RECURSIVE Concat(_)
Concat(cs) == IF cs = <<>> THEN <<>> ELSE Head(cs) \o Concat(Tail(cs))

IsInk(c) == c \notin Whitespace
NonWhitespace(s) == SelectSeq(s, IsInk)

\* C13: the chunks returned by chunk_content of either script, concatenated
\* in order, hold the non-whitespace characters of the text, all of them,
\* once each and in the same order.
C13_ChunksKeepNonWhitespace ==
    chunks.called => NonWhitespace(Concat(chunks.out)) = NonWhitespace(content)

\* Paragraphs whose delimiter and surrounding whitespace are dropped, one of
\* the chunks cut in slices.
C13_Witness ==
    /\ ByV1
    /\ Len(Paragraphs) >= 2
    /\ \E i \in 1..Len(Accumulated) : Len(Accumulated[i]) > chunk_size
    /\ Len(Concat(chunks.out)) < Len(content)
    /\ NonWhitespace(content) # <<>>
    /\ NonWhitespace(Concat(chunks.out)) = NonWhitespace(content)

\* The buffer that holds the paragraphs of a run.
Buffer(run) == Concat_paragraphs(run)

\* The paragraphs of a run joined by the blank-line delimiter.
Joined(run) == SubSeq(Buffer(run), 1, Len(Buffer(run)) - 2)

Runs == runs(Paragraphs, 1, chunk_size, <<>>, <<>>)
TrimmedRuns == [k \in 1..Len(Runs) |-> strip(Buffer(Runs[k]))]

\* The chunks returned for a text longer than the limit are the runs of
\* paragraphs the accumulation forms, trimmed (and cut in smart_learn.py).
ChunksAreRuns ==
    chunks.out = IF chunks.by = "smart_learn" THEN CutLong(TrimmedRuns, chunk_size)
                 ELSE TrimmedRuns

\* C14 as stated: a new chunk starts only when the buffer joined with the
\* next paragraph by the blank-line delimiter would be longer than the limit.
C14_NewChunkOnlyWhenOverLimit ==
    (chunks.called /\ Len(content) > chunk_size) =>
        /\ ChunksAreRuns
        /\ \A k \in 1..(Len(Runs) - 1) :
              Len(Joined(Runs[k])) + 2 + Len(Runs[k + 1][1]) > chunk_size

\* C14 amended: a new chunk starts only when the buffer joined with the next
\* paragraph by the blank-line delimiter would be as long as the limit or
\* longer.
C14_NewChunkOnlyWhenAtLimit ==
    (chunks.called /\ Len(content) > chunk_size) =>
        /\ ChunksAreRuns
        /\ \A k \in 1..(Len(Runs) - 1) :
              Len(Joined(Runs[k])) + 2 + Len(Runs[k + 1][1]) >= chunk_size

\* A paragraph that would fill the buffer to the limit exactly starts a new
\* chunk, and the paragraph after it joins that chunk.
C14_Witness ==
    /\ chunks.called
    /\ Len(content) > chunk_size
    /\ \E k \in 1..(Len(Runs) - 1) :
          /\ Len(Joined(Runs[k])) + 2 + Len(Runs[k + 1][1]) = chunk_size
          /\ Len(Runs[k + 1]) = 2
          /\ chunks.out[k] # chunks.out[k + 1]

\* C15: for an empty or whitespace-only text, whatever its length and the
\* limit, chunk_content of smart_learn.py returns one chunk, the text itself.
C15_WhitespaceContentIsOneChunk ==
    (ByV1 /\ NonWhitespace(content) = <<>>) => chunks.out = <<content>>

(***************************************************************************)
(* Two invocations of main (smart_learn_v3.py) against the same file.      *)
(* Each one tests whether its section exists, reads the file, opens it for *)
(* writing, which empties it, and writes its result from the start of the  *)
(* file.  Nothing orders the steps of one invocation against the other's.  *)
(***************************************************************************)
Invocations == {1, 2}

\* The section ids that are keys of EXISTING_SECTIONS.
Registry == {"docker", "linux"}

\* formatted_html of each invocation
ProcFragment(p) == <<P(IF p = 1 THEN "first" ELSE "second")>>

\* (variant: the file is opened without being emptied)
open_kept(current) == current

\* open(NOTES_FILE, 'w'): the file is emptied.
open_w(current) == <<>>

\* f.write(content) on a file opened at offset 0: what the file holds beyond
\* the written text stays.
write_at_start(current, text) == text \o SubSeq(current, Len(text) + 1, Len(current))

Event(ev, p, post) == [ev |-> ev, p |-> p, pre |-> file, post |-> post]

\* The result the invocation computes from what it read.
Splice(p) ==
    LET q == procs[p]
    IN  IF q.exists
        THEN add_content_to_section(q.buf, q.id, ProcFragment(p), q.ts)
        ELSE create_new_section(q.buf, q.id, section_name(q.id), ProcFragment(p), q.ts)

InitRace ==
    /\ file \in InitDocs
    /\ hist = <<>>
    /\ now = 0
    /\ topics = NoTopics
    /\ content = <<>>
    /\ chunk_size = 1
    /\ chunks = NotChunked
    /\ procs \in [Invocations ->
                    {[pc |-> "start", id |-> id, exists |-> FALSE, buf |-> <<>>,
                      ts |-> 0, ret |-> FALSE] : id \in Ids}]
    /\ loop = NoLoop
    /\ session = NotStarted

\* section_exists = section_id in EXISTING_SECTIONS or find_section_in_file(section_id)
CheckExists(p) ==
    /\ procs[p].pc = "start"
    /\ procs' = [procs EXCEPT ![p].pc = "checked",
                              ![p].exists = procs[p].id \in Registry
                                              \/ find_section_in_file(file, procs[p].id)]
    /\ hist' = Append(hist, Event("check", p, file))
    /\ UNCHANGED <<file, now, content, chunk_size, chunks, loop, session, topics>>

\* content = f.read() in add_content_to_section or create_new_section, and
\* the substitutions; add_content_to_section returns False on no match.
ReadFile(p, ts) ==
    /\ procs[p].pc = "checked"
    /\ now' = ts
    /\ LET q == [procs[p] EXCEPT !.buf = file, !.ts = ts]
           r == IF q.exists
                THEN add_content_to_section(file, q.id, ProcFragment(p), ts)
                ELSE create_new_section(file, q.id, section_name(q.id), ProcFragment(p), ts)
       IN  procs' = [procs EXCEPT ![p] = [q EXCEPT !.pc = IF r.wrote THEN "read" ELSE "done",
                                                   !.ret = r.ret]]
    /\ hist' = Append(hist, Event("read", p, file))
    /\ UNCHANGED <<file, content, chunk_size, chunks, loop, session, topics>>

OpenFile(p) ==
    /\ procs[p].pc = "read"
    /\ file' = open_w(file)
    /\ procs' = [procs EXCEPT ![p].pc = "opened"]
    /\ hist' = Append(hist, Event("open", p, open_w(file)))
    /\ UNCHANGED <<now, content, chunk_size, chunks, loop, session, topics>>

WriteFile(p) ==
    /\ procs[p].pc = "opened"
    /\ file' = write_at_start(file, Splice(p).file)
    /\ procs' = [procs EXCEPT ![p].pc = "done"]
    /\ hist' = Append(hist, Event("write", p, write_at_start(file, Splice(p).file)))
    /\ UNCHANGED <<now, content, chunk_size, chunks, loop, session, topics>>

NextRace ==
    \/ \E p \in Invocations : CheckExists(p)
    \/ \E p \in Invocations, ts \in Readings : ReadFile(p, ts)
    \/ \E p \in Invocations : OpenFile(p)
    \/ \E p \in Invocations : WriteFile(p)

SpecRace == InitRace /\ [][NextRace]_vars

(***************************************************************************)
(* Properties of two concurrent invocations (specification SpecRace)       *)
(***************************************************************************)
EventsOf(ev) == {i \in 1..Len(hist) : hist[i].ev = ev}
Other(p) == IF p = 1 THEN 2 ELSE 1
BothDone == \A p \in Invocations : procs[p].pc = "done"
LastEvent(ev) == CHOOSE i \in EventsOf(ev) : \A j \in EventsOf(ev) : j <= i
FirstEvent(ev) == CHOOSE i \in EventsOf(ev) : \A j \in EventsOf(ev) : i <= j

\* Both invocations have written, and both read the file before either one
\* opened it for writing.
BothReadBeforeEitherWrites ==
    /\ BothDone
    /\ Cardinality(EventsOf("write")) = 2
    /\ \A i \in EventsOf("read"), j \in EventsOf("open") : i < j

\* The file is what the last writer computed, and the fragment of the other
\* invocation is not in it.
LastWriterWins ==
    LET w == hist[LastEvent("write")].p
    IN  /\ file = Splice(w).file
        /\ Occurrences(file, ProcFragment(Other(w))) = 0

\* C16 as stated: when both invocations read the file before either writes
\* it, the final file is exactly the result of the invocation whose write
\* completes last, without the fragment of the other one.
C16_LastWriterWins == BothReadBeforeEitherWrites => LastWriterWins

\* C16 amended: the same, when the first write has completed before the
\* second invocation opens the file for writing.
C16_LastWriterWinsWhenWritesDoNotOverlap ==
    (BothReadBeforeEitherWrites /\ FirstEvent("write") < LastEvent("open"))
        => LastWriterWins

\* Both read, then the first to write created a section and the second one
\* appended to another section: the created section is lost.
C16_Witness ==
    /\ BothReadBeforeEitherWrites
    /\ FirstEvent("write") < LastEvent("open")
    /\ ~procs[hist[FirstEvent("write")].p].exists
    /\ procs[hist[LastEvent("write")].p].exists
    /\ LastWriterWins
    /\ Occurrences(file, ProcFragment(hist[LastEvent("write")].p)) = 1
    /\ Occurrences(hist[FirstEvent("write")].post, ProcFragment(hist[FirstEvent("write")].p)) = 1
    /\ OpenersOf(file, procs[hist[FirstEvent("write")].p].id) = {}

\* Both invocations have the same anchor id and found it neither in the
\* registry nor in the file, the tests made before either one began to
\* create; then one created the section and after that the other one did.
C17_Case ==
    /\ BothDone
    /\ procs[1].id = procs[2].id
    /\ \A p \in Invocations : ~procs[p].exists
    /\ \A i \in EventsOf("check"), j \in EventsOf("read") : i < j
    /\ FirstEvent("write") < LastEvent("read")

\* C17: two invocations that both pass the existence test for the same new
\* anchor id both run create_new_section; run one after the other on a
\* well-formed document they leave two section blocks and two ToC entries
\* for that id.
C17_BothCreate ==
    (C17_Case /\ WellFormed(File0)) =>
        /\ Cardinality(EventsOf("write")) = 2
        /\ Cardinality(OpenersOf(file, procs[1].id)) = 2
        /\ Cardinality(TocEntries(file, procs[1].id)) = 2
        /\ \A p \in Invocations : Occurrences(file, ProcFragment(p)) = 1

\* Two sections "git" in a document that held none.
C17_Witness ==
    /\ C17_Case
    /\ WellFormed(File0)
    /\ OpenersOf(File0, procs[1].id) = {}
    /\ Cardinality(OpenersOf(file, procs[1].id)) = 2
    /\ Cardinality(TocEntries(file, procs[1].id)) = 2

(***************************************************************************)
(* The per-chunk loop: analyze_and_format_content in smart_learn_v3.py,    *)
(* and the loop over the chunks for one topic in smart_learn.py            *)
(* (process_large_content, process_for_specific_topic, with analyze_chunk  *)
(* and analyze_chunk_for_topic).  Each chunk is sent to the collaborator;  *)
(* the call returns a usable answer, raises, returns text that does not    *)
(* parse or, in smart_learn.py, an answer that is not kept.                *)
(***************************************************************************)
MaxChunks == 3

Scripts == {"smart_learn", "smart_learn_v3"}
Outcomes(script) ==
    IF script = "smart_learn_v3" THEN {"ok", "raises"}
    ELSE {"ok", "raises", "malformed", "irrelevant"}

ChunkLabel(i) == <<"c1", "c2", "c3", "c4", "c5", "c6">>[i]

\* What one kept answer adds to the result: html_content + "\n\n" to all_html,
\* or the analysis appended to results[topic].
Fragment(script, i) ==
    IF script = "smart_learn_v3" THEN <<P(ChunkLabel(i)), WS>>
    ELSE <<[title |-> ChunkLabel(i)]>>

InitLoop ==
    /\ file = EmptyShell
    /\ hist = <<>>
    /\ now = 0
    /\ topics = NoTopics
    /\ content = <<>>
    /\ chunk_size = 1
    /\ chunks = NotChunked
    /\ procs = NoProcs
    /\ loop \in {[script |-> sc, n |-> n, i |-> 1, submitted |-> <<>>, outcomes |-> <<>>,
                  acc |-> <<>>, warnings |-> 0, raised |-> FALSE] :
                    sc \in Scripts, n \in 1..MaxChunks}
    /\ session = NotStarted

\* (variant: the call is made outside the try block)
SubmitChunk_uncaught(o) ==
    /\ loop.i <= loop.n
    /\ ~loop.raised
    /\ loop' = [loop EXCEPT !.i = IF o = "raises" THEN @ ELSE @ + 1,
                            !.submitted = Append(@, loop.i),
                            !.outcomes = Append(@, o),
                            !.acc = IF o = "ok" THEN @ \o Fragment(loop.script, loop.i) ELSE @,
                            !.raised = (o = "raises")]
    /\ UNCHANGED <<file, hist, now, content, chunk_size, chunks, procs, session, topics>>

\* One iteration: the call inside try, the answer added to the result, an
\* exception caught and reported.
SubmitChunk(o) ==
    /\ loop.i <= loop.n
    /\ ~loop.raised
    /\ loop' = [loop EXCEPT !.i = @ + 1,
                            !.submitted = Append(@, loop.i),
                            !.outcomes = Append(@, o),
                            !.acc = IF o = "ok" THEN @ \o Fragment(loop.script, loop.i) ELSE @,
                            !.warnings = IF o \in {"raises", "malformed"} THEN @ + 1 ELSE @]
    /\ UNCHANGED <<file, hist, now, content, chunk_size, chunks, procs, session, topics>>

NextLoop == \E o \in Outcomes(loop.script) : SubmitChunk(o)

SpecLoop == InitLoop /\ [][NextLoop]_vars

\* The fragments of the chunks from the i-th on whose call returned a kept answer.
RECURSIVE KeptFragments(_, _, _)
KeptFragments(script, outcomes, i) ==
    IF i > Len(outcomes) THEN <<>>
    ELSE (IF outcomes[i] = "ok" THEN Fragment(script, i) ELSE <<>>)
             \o KeptFragments(script, outcomes, i + 1)

\* C18: whatever chunks the collaborator raises on, the chunks are submitted
\* once each in order, the result holds the fragments of exactly the chunks
\* that did not fail (and were kept), in chunk order, and no exception leaves
\* the loop: it runs to the last chunk.
C18_ChunkErrorsAreContained ==
    /\ ~loop.raised
    /\ loop.submitted = [k \in 1..(loop.i - 1) |-> k]
    /\ loop.acc = KeptFragments(loop.script, loop.outcomes, 1)
    /\ (loop.i <= loop.n) => ENABLED NextLoop

\* Three chunks, the collaborator raising on the second one.
C18_Witness ==
    /\ loop.n = 3
    /\ loop.i = 4
    /\ loop.script = "smart_learn_v3"
    /\ loop.outcomes = <<"ok", "raises", "ok">>
    /\ loop.acc = Fragment("smart_learn_v3", 1) \o Fragment("smart_learn_v3", 3)
    /\ loop.warnings = 1

(***************************************************************************)
(* One invocation of main, of either script: the input is read and tested, *)
(* the content is formatted by the collaborator, the document is written   *)
(* and the change is staged, committed and pushed.  A git command exits    *)
(* with status zero, exits with another status, or cannot be started       *)
(* (subprocess.run raises OSError).                                        *)
(***************************************************************************)
Rep(c, n) == [k \in 1..n |-> c]

\* The contents tried: none, blanks only, nine characters between
\* whitespace, ten characters, ten characters after a blank.
InputTexts ==
    {<<>>, Rep(" ", 12), <<" ">> \o Rep("a", 9) \o <<NL, " ">>, Rep("a", 10),
     <<" ">> \o Rep("b", 10)}

\* What main is given: a path to no file, a file, pasted text, text on the
\* command line, or nothing.
Sources == {"missing_file", "file", "interactive", "content", "none"}

GitOutcomes == {"ok", "nonzero", "oserror"}

\* (variant: the length is taken of the content as given)
too_short_untrimmed(text) == text = <<>> \/ Len(text) < 10

\* not content or len(content.strip()) < 10
too_short(text) == text = <<>> \/ Len(strip(text)) < 10

MainDocs ==
    {EmptyShell,
     Doc(<<EndUl, WS, EndNav>>, ClassBlock("git", 1), <<EndMain>>),
     Doc(<<EndUl, WS, EndNav>>, DivBlock("git"), <<EndMain>>),
     Doc(<<EndUl, WS, EndNav>>, BareBlock("docker"), <<EndMain>>)}

InitMain ==
    /\ file \in MainDocs
    /\ hist = <<>>
    /\ now = 0
    /\ topics = NoTopics
    /\ content = <<>>
    /\ chunk_size = 1
    /\ chunks = NotChunked
    /\ procs = NoProcs
    /\ loop = NoLoop
    /\ \E sc \in Scripts, src \in Sources, id \in Ids, dry \in BOOLEAN, np \in BOOLEAN :
       \E text \in IF src \in {"missing_file", "none"} THEN {<<>>} ELSE InputTexts :
          session = [script |-> sc, source |-> src, text |-> text, topic |-> id,
                     dry_run |-> dry, no_push |-> np, pc |-> "start", events |-> <<>>,
                     sync |-> <<>>, status |-> "running", file0 |-> file, written |-> <<>>]

Ended(status, evs) ==
    [session EXCEPT !.pc = "done", !.status = status, !.events = @ \o evs]

\* main from the start to the test of the content: read_file_content exits
\* when the file is missing, main when no input is given or the content is
\* too short.
ReadInput ==
    /\ session.pc = "start"
    /\ session' =
          IF session.source \in {"missing_file", "none"} THEN Ended("exit1", <<"error">>)
          ELSE LET evs == IF session.source = "file" THEN <<"extract">> ELSE <<>>
               IN  IF too_short(session.text) THEN Ended("exit1", evs \o <<"error">>)
                   ELSE [session EXCEPT !.pc = "ready", !.events = @ \o evs]
    /\ UNCHANGED <<file, hist, now, content, chunk_size, chunks, procs, loop, topics>>

\* The collaborator's part: the client, the section or the topics, the
\* per-chunk loop; then the preview and return of a dry run.
Format ==
    /\ session.pc = "ready"
    /\ session' =
          IF session.dry_run THEN Ended("returned", <<"summarize", "preview">>)
          ELSE [session EXCEPT !.pc = "formatted", !.events = @ \o <<"summarize">>]
    /\ UNCHANGED <<file, hist, now, content, chunk_size, chunks, procs, loop, topics>>

\* (variant: only the registry is asked)
section_exists_in_registry(text, section_id) == section_id \in Registry

\* section_exists = section_id in EXISTING_SECTIONS or find_section_in_file(section_id)
section_exists(text, section_id) ==
    section_id \in Registry \/ find_section_in_file(text, section_id)

\* add_content_to_section or create_new_section on NOTES_FILE
\* (smart_learn_v3.py); update_topic_file and update_index_html on the
\* topic files (smart_learn.py), which leave NOTES_FILE alone.  The call of
\* the splicer is recorded in hist.
WriteDocument(ts) ==
    /\ session.pc = "formatted"
    /\ now' = ts
    /\ LET id == session.topic
           add == section_exists(file, id)
           r == IF session.script = "smart_learn"
                THEN [file |-> file, wrote |-> TRUE, ret |-> TRUE]
                ELSE IF add
                THEN add_content_to_section(file, id, PlainFragment, ts)
                ELSE create_new_section(file, id, section_name(id), PlainFragment, ts)
           evs == IF r.wrote THEN <<"write">> ELSE <<>>
       IN  /\ file' = r.file
           /\ hist' = IF session.script = "smart_learn" THEN hist
                      ELSE IF add
                      THEN Append(hist, Call("add", id, "", PlainFragment, ts, r))
                      ELSE Append(hist, Call("create", id, section_name(id),
                                             PlainFragment, ts, r))
           /\ session' =
                 IF r.ret
                 THEN [session EXCEPT !.pc = "written", !.events = @ \o evs,
                                      !.written = r.file]
                 ELSE [Ended("returned", evs \o <<"failed">>) EXCEPT !.written = r.file]
    /\ UNCHANGED <<content, chunk_size, chunks, procs, loop, topics>>

\* The invocation after one git command of the sync step that leads to pc
\* to.  With --no-push the exit status is ignored; without, add and commit
\* raise CalledProcessError on a non-zero status, which git_commit_and_push
\* turns into False and main into a warning.  An OSError is not caught.
AfterGit(cmd, to, o) ==
    LET s1 == [session EXCEPT !.events = @ \o <<cmd>>, !.sync = Append(@, o)]
    IN  IF o = "oserror"
        THEN [s1 EXCEPT !.pc = "done", !.status = "aborted"]
        ELSE IF o = "nonzero" /\ ~session.no_push
        THEN [s1 EXCEPT !.pc = "done", !.status = "returned", !.events = @ \o <<"warning">>]
        ELSE IF to = "done"
        THEN [s1 EXCEPT !.pc = "done", !.status = "returned", !.events = @ \o <<"success">>]
        ELSE [s1 EXCEPT !.pc = to]

GitAdd(o) ==
    /\ session.pc = "written"
    /\ session' = AfterGit("git add", "added", o)
    /\ UNCHANGED <<file, hist, now, content, chunk_size, chunks, procs, loop, topics>>

GitCommit(o) ==
    /\ session.pc = "added"
    /\ session' = AfterGit("git commit", IF session.no_push THEN "done" ELSE "committed", o)
    /\ UNCHANGED <<file, hist, now, content, chunk_size, chunks, procs, loop, topics>>

GitPush(o) ==
    /\ session.pc = "committed"
    /\ session' = AfterGit("git push", "done", o)
    /\ UNCHANGED <<file, hist, now, content, chunk_size, chunks, procs, loop, topics>>

NextMain ==
    \/ ReadInput
    \/ Format
    \/ \E ts \in Readings : WriteDocument(ts)
    \/ \E o \in GitOutcomes : GitAdd(o)
    \/ \E o \in GitOutcomes : GitCommit(o)
    \/ \E o \in GitOutcomes : GitPush(o)

SpecMain == InitMain /\ [][NextMain]_vars

(***************************************************************************)
(* Properties of one invocation (specification SpecMain)                   *)
(***************************************************************************)
SyncEvents == {"git add", "git commit", "git push"}
EventIndices(evs) == {i \in 1..Len(session.events) : session.events[i] \in evs}
SyncFailed == \E i \in 1..Len(session.sync) : session.sync[i] # "ok"

\* C19: in smart_learn_v3.py a sync command runs only after the document
\* write has completed, and when add, commit or push fails the invocation is
\* not aborted by an exception, the document keeps the new content and,
\* unless --no-push was given, the invocation ends with the warning.
C19_SyncFailureOnlyWarns ==
    session.script = "smart_learn_v3" =>
        /\ \A i \in EventIndices(SyncEvents) :
              /\ \E j \in EventIndices({"write"}) : j < i
              /\ file = session.written
        /\ SyncFailed =>
              /\ session.status # "aborted"
              /\ file = session.written
              /\ Occurrences(file, PlainFragment) = 1
              /\ (session.pc = "done" /\ ~session.no_push)
                    => EventIndices({"warning"}) # {}

InputError ==
    \/ session.source = "missing_file"
    \/ /\ session.source \in {"file", "interactive", "content"}
       /\ Len(strip(session.text)) < 10

\* C20: main of either script, given a file that does not exist or a content
\* that is empty or shorter than 10 characters after trimming, exits with a
\* non-zero status before any summarizer call, document write or sync step.
C20_InputErrorExitsFirst ==
    (InputError /\ session.pc # "start") =>
        /\ session.pc = "done"
        /\ session.status = "exit1"
        /\ EventIndices(SyncEvents \cup {"summarize", "write"}) = {}
        /\ file = session.file0

\* Nine characters between whitespace, twelve in all, given to smart_learn.py.
C20_Witness ==
    /\ session.script = "smart_learn"
    /\ session.source = "content"
    /\ Len(session.text) = 12
    /\ Len(strip(session.text)) = 9
    /\ session.status = "exit1"
    /\ session.events = <<"error">>

(***************************************************************************)
(* Further properties of the chunker (specification SpecChunk)             *)
(***************************************************************************)
\* C24: with the same size limit, chunk_content of smart_learn_v3.py returns
\* for every text the chunks that chunk_content of smart_learn.py returns.
C24_ScriptsChunkAlike ==
    chunks.called =>
        chunk_content_v3(content, chunk_size) = chunk_content(content, chunk_size)

RECURSIVE AddedTexts(_)
AddedTexts(k) == IF k > Len(hist) THEN <<>> ELSE AddedText(hist[k]) \o AddedTexts(k + 1)

\* Every call so far is a successful append on one anchor id, with a fragment
\* that holds no section marker.
C22_Case ==
    /\ hist # <<>>
    /\ \A k \in 1..Len(hist) :
          /\ hist[k].op = "add" /\ hist[k].ret = TRUE
          /\ hist[k].id = hist[1].id
          /\ NoSectionMarkers(hist[k].frag)

\* C22: after successful appends of f1..fn (no section markers) on one anchor,
\* every section carrying the anchor holds, from its opening marker to its
\* nearest closing marker, its earlier content unchanged, then f1, ..., fn in
\* this order, each after its own timestamp comment; nothing else differs.
C22_AppendsAccumulateInOrder ==
    C22_Case =>
        /\ file = InsertBefore(File0, AddPoints(File0, hist[1].id), AddedTexts(1), 1)
        /\ \A p \in OpenersOf(File0, hist[1].id) :
              LET q == ClosingOf(File0, p)
              IN  Occurrences(file, SubSeq(File0, p, q - 1) \o AddedTexts(1) \o <<EndSec>>) >= 1

\* Two appends of different fragments, read in different minutes.
C22_Witness ==
    /\ C22_Case
    /\ Len(hist) = 2
    /\ hist[1].frag # hist[2].frag
    /\ hist[1].ts # hist[2].ts
    /\ Cardinality(Openers(File0)) = 2

(***************************************************************************)
(* Further properties of one invocation (specification SpecMain)           *)
(***************************************************************************)
\* The invocation has gone through the splice step.
Spliced ==
    \/ session.pc \in {"written", "added", "committed"}
    \/ EventIndices({"write", "failed"} \cup SyncEvents) # {}

\* An element of the text carries the attribute id="id".
InFile(text, id) ==
    \E i \in 1..Len(text) : text[i].k \in {"secC", "secB", "div"} /\ text[i].id = id

\* C25: an invocation of smart_learn_v3.py that reaches the splice step calls
\* exactly one of add_content_to_section and create_new_section:
\* create_new_section only when the anchor id is neither in EXISTING_SECTIONS
\* nor in the file, add_content_to_section otherwise; when the id is in
\* EXISTING_SECTIONS and the file holds no such section, the append fails,
\* the file is as before, no section is created and no sync command runs.
C25_OneSpliceCall ==
    session.script = "smart_learn_v3" =>
        /\ Len(hist) = (IF Spliced THEN 1 ELSE 0)
        /\ Spliced =>
              LET c == hist[1]
              IN  /\ c.op \in {"add", "create"}
                  /\ c.id = session.topic /\ c.pre = session.file0
                  /\ c.op = "create" <=>
                        (c.id \notin Registry /\ ~InFile(c.pre, c.id))
                  /\ (c.id \in Registry /\ OpenersOf(c.pre, c.id) = {}) =>
                        /\ c.op = "add" /\ c.ret = FALSE
                        /\ file = c.pre
                        /\ Cardinality(Openers(file)) = Cardinality(Openers(c.pre))
                        /\ session.pc = "done"
                        /\ EventIndices(SyncEvents) = {} /\ session.sync = <<>>

\* The registry names a section that the file does not hold: the append has
\* failed and the invocation has ended.
C25_Witness ==
    /\ session.script = "smart_learn_v3"
    /\ Spliced
    /\ hist[1].id \in Registry
    /\ OpenersOf(hist[1].pre, hist[1].id) = {}
    /\ hist[1].op = "add" /\ hist[1].ret = FALSE
    /\ EventIndices({"failed"}) # {}
    /\ session.status = "returned"

(***************************************************************************)
(* Remove mode of smart_learn_v3.py: remove_content_from_file and          *)
(* clear_section_content.  A whitespace token holds one line break.        *)
(***************************************************************************)
\* (<section id="ID"[^>]*>\s*<h2>[^<]*</h2>) matched at position p: the
\* position of the heading, with nothing but whitespace before it, or 0.
group1_end(text, p) ==
    LET S == {h \in (p + 1)..Len(text) :
                 text[h].k = "h2" /\ \A m \in (p + 1)..(h - 1) : text[m].k = "ws"}
    IN  IF S = {} THEN 0 ELSE CHOOSE h \in S : TRUE

\* re.search(pattern, content, re.DOTALL): the leftmost opening tag of the
\* section that is followed by a heading and, anywhere later, by </section>;
\* 0 when there is none.
search(text, section_id) ==
    LET S == {p \in 1..Len(text) :
                 /\ OpensSection(text[p], section_id)
                 /\ group1_end(text, p) # 0
                 /\ NextClose(text, group1_end(text, p)) # 0}
    IN  IF S = {} THEN 0 ELSE CHOOSE p \in S : \A r \in S : p <= r

\* str.replace(old, new) from position i on: every non-overlapping
\* occurrence of old, left to right.
RECURSIVE replace(_, _, _, _)
replace(text, old, new, i) ==
    IF i > Len(text) THEN <<>>
    ELSE IF i + Len(old) - 1 <= Len(text) /\ SubSeq(text, i, i + Len(old) - 1) = old
    THEN new \o replace(text, old, new, i + Len(old))
    ELSE <<text[i]>> \o replace(text, old, new, i + 1)

\* (variant: the heading goes with the body)
new_section_without_heading(text, p, h) == <<text[p], WS, WS, EndSec>>

\* new_section = match.group(1) + '\n\n            ' + match.group(2)
new_section(text, p, h) == SubSeq(text, p, h) \o <<WS, WS, EndSec>>

\* (variant: the preview is not taken)
clear_section_content_always(text, section_id, dry_run) ==
    LET p == search(text, section_id)
    IN  IF p = 0 THEN [file |-> text, wrote |-> FALSE, ret |-> FALSE]
        ELSE LET h == group1_end(text, p)
                 q == NextClose(text, h)
             IN  [file |-> replace(text, SubSeq(text, p, q), new_section(text, p, h), 1),
                  wrote |-> TRUE, ret |-> TRUE]

\* The function up to the write: what it writes and what it returns.
clear_section_content(text, section_id, dry_run) ==
    LET p == search(text, section_id)
    IN  IF p = 0 THEN [file |-> text, wrote |-> FALSE, ret |-> FALSE]
        ELSE IF dry_run THEN [file |-> text, wrote |-> FALSE, ret |-> TRUE]
        ELSE LET h == group1_end(text, p)
                 q == NextClose(text, h)
             IN  [file |-> replace(text, SubSeq(text, p, q), new_section(text, p, h), 1),
                  wrote |-> TRUE, ret |-> TRUE]

\* re.sub(r'\n\s*\n\s*\n', '\n\n', new_content) from position i on: a run of
\* three or more line breaks becomes two.
RECURSIVE collapse(_, _)
collapse(text, i) ==
    IF i > Len(text) THEN <<>>
    ELSE IF text[i].k # "ws" THEN <<text[i]>> \o collapse(text, i + 1)
    ELSE LET S == {j \in i..Len(text) : text[j].k # "ws"}
             e == IF S = {} THEN Len(text) + 1 ELSE CHOOSE j \in S : \A r \in S : j <= r
         IN  (IF e - i >= 3 THEN <<WS, WS>> ELSE SubSeq(text, i, e - 1))
                 \o collapse(text, e)

\* The exact-match branch of remove_content_from_file up to the write.
remove_exact(text, search_text, dry_run) ==
    IF Occurrences(text, search_text) = 0
    THEN [file |-> text, wrote |-> FALSE, ret |-> FALSE]
    ELSE IF dry_run THEN [file |-> text, wrote |-> FALSE, ret |-> TRUE]
    ELSE [file |-> collapse(replace(text, search_text, <<>>, 1), 1),
          wrote |-> TRUE, ret |-> TRUE]

\* What remove mode reads from standard input: the id or the display name of
\* a section of EXISTING_SECTIONS, a text of fewer than five characters, or a
\* piece of text to look for in the file.
Pieces == {<<P("old")>>, <<P("tip")>>, <<EndSec>>, <<P("none")>>}
Searches ==
    [kind : {"id", "name"}, id : Registry, piece : {<<>>}]
        \cup [kind : {"short"}, id : {""}, piece : {<<>>}]
        \cup [kind : {"text"}, id : {""}, piece : Pieces]

\* What the user would answer to a confirmation prompt.
Answers == {"y", "n", "none"}

\* A section as create_new_section writes it, with content added since.
CreatedBlock ==
    new_section_block("docker", 1, "Docker", PlainFragment, 1)
        \o <<WS>> \o ClassBlock("linux", 2)

\* A section that is not closed, before one that is.
UnclosedBlock == <<SecC("docker"), H2(1, "Docker"), P("old")>> \o ClassBlock("linux", 2)

RemoveDocs ==
    InitDocs \cup {Doc(<<EndUl, WS, EndNav>>, body, <<EndMain>>) :
                      body \in {CreatedBlock, UnclosedBlock}}

InitRemove ==
    /\ file \in RemoveDocs
    /\ hist = <<>>
    /\ now = 0
    /\ topics = NoTopics
    /\ content = <<>>
    /\ chunk_size = 1
    /\ chunks = NotChunked
    /\ procs = NoProcs
    /\ loop = NoLoop
    /\ \E s \in Searches, dry \in BOOLEAN, a \in Answers :
          session = [script |-> "smart_learn_v3", source |-> "stdin", text |-> <<>>,
                     topic |-> "", dry_run |-> dry, no_push |-> FALSE, pc |-> "remove",
                     events |-> <<>>, sync |-> <<>>, status |-> "running",
                     file0 |-> file, written |-> <<>>, search |-> s, answer |-> a,
                     answered |-> FALSE]

\* remove_content_from_file from its start to the choice of the branch: the
\* text is too short, names a section (the prompt is printed and the clearing
\* follows; nothing is read from the user), or is looked for in the file.
RemoveLookup ==
    /\ session.pc = "remove"
    /\ session' =
          IF session.search.kind = "short" THEN Ended("returned", <<"too short">>)
          ELSE IF session.search.kind \in {"id", "name"}
          THEN [session EXCEPT !.pc = "clear", !.events = @ \o <<"prompt">>]
          ELSE [session EXCEPT !.pc = "match"]
    /\ UNCHANGED <<file, hist, now, content, chunk_size, chunks, procs, loop, topics>>

\* The session after the write step of clear_section_content or of the
\* exact-match branch: nothing found, the preview of a dry run, or the write,
\* which git_commit_and_push follows.
AfterRemoval(r) ==
    IF ~r.ret THEN Ended("returned", <<"not found">>)
    ELSE IF ~r.wrote THEN Ended("returned", <<"preview">>)
    ELSE [session EXCEPT !.pc = "written", !.events = @ \o <<"write">>,
                         !.written = r.file]

ClearSection ==
    /\ session.pc = "clear"
    /\ LET r == clear_section_content(file, session.search.id, session.dry_run)
       IN  /\ file' = r.file
           /\ hist' = Append(hist, Call("clear", session.search.id, "", <<>>, 0, r))
           /\ session' = AfterRemoval(r)
    /\ UNCHANGED <<now, content, chunk_size, chunks, procs, loop, topics>>

RemoveText ==
    /\ session.pc = "match"
    /\ LET r == remove_exact(file, session.search.piece, session.dry_run)
       IN  /\ file' = r.file
           /\ hist' = Append(hist, Call("remove", "", "", session.search.piece, 0, r))
           /\ session' = AfterRemoval(r)
    /\ UNCHANGED <<now, content, chunk_size, chunks, procs, loop, topics>>

NextRemove ==
    \/ RemoveLookup
    \/ ClearSection
    \/ RemoveText
    \/ \E o \in GitOutcomes : GitAdd(o)
    \/ \E o \in GitOutcomes : GitCommit(o)
    \/ \E o \in GitOutcomes : GitPush(o)

SpecRemove == InitRemove /\ [][NextRemove]_vars

\* C28: after a successful clear of section X the document still holds X's
\* opening marker and its <h2> heading, as many section-opening markers as
\* before, find_section_in_file(X) is true and the text of every other
\* section (from its opening marker to its closing marker) is as it was; when no section X with a heading is found the call
\* returns False and writes nothing.
C28_ClearKeepsHeaderAndOthers ==
    Called("clear") =>
        LET c == LastCall
            X == c.id
            Headed(text) == {p \in OpenersOf(text, X) :
                                \E h \in (p + 1)..Len(text) :
                                    /\ text[h].k = "h2"
                                    /\ \A m \in (p + 1)..(h - 1) : text[m].k = "ws"}
        IN  /\ c.wrote =>
                  /\ c.ret = TRUE
                  /\ Headed(file) # {}
                  /\ Cardinality(Openers(file)) = Cardinality(Openers(c.pre))
                  /\ find_section_in_file(file, X)
                  /\ \A p \in Openers(c.pre) \ OpenersOf(c.pre, X) :
                        \A q \in Closers(c.pre) :
                            (q > p /\ \A m \in (p + 1)..(q - 1) :
                                         m \notin Openers(c.pre) \cup Closers(c.pre))
                                => Occurrences(file, SubSeq(c.pre, p, q)) >= 1
            /\ Headed(c.pre) = {} => (c.ret = FALSE /\ ~c.wrote /\ file = c.pre)

\* C28 amended: the same on a document whose sections are closed and do not
\* nest; there the cleared section runs from its opening marker over the
\* heading to an empty line and its closing marker.
C28_ClearKeepsHeaderAndOthersWhenNotNested ==
    (Called("clear") /\ NonNested(LastCall.pre)) =>
        LET c == LastCall
            X == c.id
            Headed(text) == {p \in OpenersOf(text, X) :
                                \E h \in (p + 1)..Len(text) :
                                    /\ text[h].k = "h2"
                                    /\ \A m \in (p + 1)..(h - 1) : text[m].k = "ws"}
        IN  /\ c.wrote =>
                  /\ c.ret = TRUE
                  /\ \E p \in Headed(file) :
                        LET q == ClosingOf(file, p)
                        IN  /\ file[q - 1].k = "ws" /\ file[q - 2].k = "ws"
                            /\ file[q - 3].k = "h2"
                  /\ Cardinality(Openers(file)) = Cardinality(Openers(c.pre))
                  /\ find_section_in_file(file, X)
                  /\ \A p \in Openers(c.pre) \ OpenersOf(c.pre, X) :
                        Occurrences(file, SubSeq(c.pre, p, ClosingOf(c.pre, p))) >= 1
                  /\ NonNested(file)
            /\ Headed(c.pre) = {} => (c.ret = FALSE /\ ~c.wrote /\ file = c.pre)

\* A section written by create_new_section, cleared; the section after it is
\* as before.
C28_Witness ==
    /\ Called("clear")
    /\ NonNested(LastCall.pre)
    /\ LastCall.wrote /\ LastCall.ret
    /\ Cardinality(Openers(LastCall.pre)) = 2
    /\ Occurrences(LastCall.pre, PlainFragment) = 1
    /\ Occurrences(file, PlainFragment) = 0
    /\ Occurrences(file, ClassBlock("linux", 2)) = 1

\* C27: in remove mode without --dry-run, for a text that names a section, the
\* section is cleared only after the user has answered the '(y/n)' prompt with
\* yes; without that answer the file is not modified.
C27_ClearOnlyAfterConfirmation ==
    (Called("clear") /\ ~session.dry_run) =>
        LET confirmed == session.answered /\ session.answer = "y"
        IN  /\ LastCall.wrote => confirmed
            /\ ~confirmed => file = session.file0

(***************************************************************************)
(* One invocation in add mode (either script) or in remove mode            *)
(***************************************************************************)
InitModes == InitMain \/ InitRemove

NextModes ==
    \/ ReadInput
    \/ Format
    \/ \E ts \in Readings : WriteDocument(ts)
    \/ RemoveLookup
    \/ ClearSection
    \/ RemoveText
    \/ \E o \in GitOutcomes : GitAdd(o)
    \/ \E o \in GitOutcomes : GitCommit(o)
    \/ \E o \in GitOutcomes : GitPush(o)

SpecModes == InitModes /\ [][NextModes]_vars

\* C26: with --dry-run, in add mode of either script and in remove mode of
\* smart_learn_v3.py (a text to remove or a section to clear), no document
\* file is written and no git command runs.
C26_DryRunChangesNothing ==
    session.dry_run =>
        /\ file = session.file0
        /\ EventIndices(SyncEvents \cup {"write"}) = {}
        /\ session.sync = <<>>
        /\ \A k \in 1..Len(hist) : ~hist[k].wrote /\ hist[k].post = hist[k].pre

\* A dry run that names a section the file holds: the preview, and the end.
C26_Witness ==
    /\ session.dry_run
    /\ Called("clear")
    /\ LastCall.ret = TRUE
    /\ search(file, LastCall.id) # 0
    /\ session.events = <<"prompt", "preview">>
    /\ session.pc = "done"

(***************************************************************************)
(* Anchor ids: the normalisation of a topic given on the command line      *)
(***************************************************************************)
\* The characters of the topics tried, and their greatest length.
Upper == {"A", "B"}
IdChars == {"a", "b", " ", "-"} \cup Upper
MaxIdLen == 3
Topics == SeqsUpTo(IdChars, MaxIdLen)

\* (variant: the letters are left in their case)
lower_kept(s) == s

\* str.lower()
lower(s) == [i \in 1..Len(s) |-> CASE s[i] = "A" -> "a" [] s[i] = "B" -> "b" [] OTHER -> s[i]]

\* str.replace(old, new) for single characters
replace_char(s, old, new) == [i \in 1..Len(s) |-> IF s[i] = old THEN new ELSE s[i]]

\* smart_learn_v3.py: section_id = args.topic.lower().replace(" ", "-")
section_id_of(topic) == replace_char(lower(topic), " ", "-")

\* smart_learn.py: topic_input = topic_input.lower().strip().replace(" ", "-")
normalized(topic_input) == replace_char(strip(lower(topic_input)), " ", "-")

InitIds ==
    /\ file = EmptyShell
    /\ hist = <<>>
    /\ now = 0
    /\ topics = NoTopics
    /\ content = <<>>
    /\ chunk_size = 1
    /\ chunks = NotChunked
    /\ procs = NoProcs
    /\ loop = NoLoop
    /\ session = NotStarted

\* main of smart_learn_v3.py given --topic
SectionId(topic) ==
    /\ hist = <<>>
    /\ hist' = <<[op |-> "smart_learn_v3", input |-> topic, ret |-> section_id_of(topic)]>>
    /\ UNCHANGED <<file, now, content, chunk_size, chunks, procs, loop, session, topics>>

\* find_or_create_topic of smart_learn.py, its first statement
NormalizeTopic(topic) ==
    /\ hist = <<>>
    /\ hist' = <<[op |-> "smart_learn", input |-> topic, ret |-> normalized(topic)]>>
    /\ UNCHANGED <<file, now, content, chunk_size, chunks, procs, loop, session, topics>>

NextIds ==
    \/ \E topic \in Topics : SectionId(topic)
    \/ \E topic \in Topics : NormalizeTopic(topic)

SpecIds == InitIds /\ [][NextIds]_vars

\* The two texts have the same length and differ, where they differ, in the
\* case of a letter.
DiffersOnlyInCase(s, t) ==
    /\ Len(s) = Len(t)
    /\ \A i \in 1..Len(s) :
          \/ s[i] = t[i]
          \/ {s[i], t[i]} \in {{"a", "A"}, {"b", "B"}}

\* The normalisation of the script that made the call.
NormalizedBy(script, topic) ==
    IF script = "smart_learn_v3" THEN section_id_of(topic) ELSE normalized(topic)

\* C21: the normalized anchor id holds no uppercase letter and no space, every
\* input that differs from the given one only in letter case has the same
\* normalized id, and normalizing the normalized id gives it back.
C21_IdsAreCaseNormalized ==
    hist # <<>> =>
        LET c == hist[1]
        IN  /\ \A i \in 1..Len(c.ret) : c.ret[i] \notin Upper \cup {" "}
            /\ \A other \in Topics :
                  DiffersOnlyInCase(other, c.input) => NormalizedBy(c.op, other) = c.ret
            /\ NormalizedBy(c.op, c.ret) = c.ret

\* "A b" given to smart_learn_v3.py: the id is "a-b".
C21_Witness ==
    /\ hist # <<>>
    /\ hist[1].op = "smart_learn_v3"
    /\ hist[1].input = <<"A", " ", "b">>
    /\ hist[1].ret = <<"a", "-", "b">>

(***************************************************************************)
(* smart_learn.py: the topic registry and the topic files                  *)
(***************************************************************************)
\* topic_input in key: the first text occurs in the second.
contains(piece, text) ==
    \E i \in 1..(Len(text) - Len(piece) + 1) : SubSeq(text, i, i + Len(piece) - 1) = piece

\* str.split(): the words between runs of spaces, from position i on.
RECURSIVE split_words(_, _)
split_words(s, i) ==
    IF i > Len(s) THEN <<>>
    ELSE IF s[i] = " " THEN split_words(s, i + 1)
    ELSE LET S == {j \in i..Len(s) : s[j] = " "}
             e == IF S = {} THEN Len(s) + 1 ELSE CHOOSE j \in S : \A r \in S : j <= r
         IN  <<SubSeq(s, i, e - 1)>> \o split_words(s, e)

\* str.capitalize()
capitalize(word) ==
    [i \in 1..Len(word) |->
        IF i = 1 THEN (CASE word[1] = "a" -> "A" [] word[1] = "b" -> "B" [] OTHER -> word[1])
        ELSE lower(word)[i]]

\* " ".join(words)
RECURSIVE join(_)
join(words) ==
    IF words = <<>> THEN <<>>
    ELSE IF Len(words) = 1 THEN words[1]
    ELSE words[1] \o <<" ">> \o join(Tail(words))

\* " ".join(word.capitalize() for word in topic_input.replace("-", " ").split())
display_name(topic_input) ==
    LET words == split_words(replace_char(topic_input, "-", " "), 1)
    IN  join([k \in 1..Len(words) |-> capitalize(words[k])])

\* The keys of the registry, in the order of the dictionary.
Keys(registry) == {registry[k].key : k \in 1..Len(registry)}

\* The loop over DEVOPS_TOPICS.items(): the entry matches the input.
partial_match(entry, topic_input) ==
    \/ contains(topic_input, entry.key)
    \/ contains(entry.key, topic_input)
    \/ contains(topic_input, replace_char(lower(entry.name), " ", "-"))

\* (variant: the loop over the entries is left out)
find_or_create_topic_exact_only(registry, topic_input, icon, color) ==
    LET t == normalized(topic_input)
    IN  IF t \in Keys(registry) THEN [registry |-> registry, ret |-> t]
        ELSE [registry |-> Append(registry, [key |-> t, name |-> display_name(t),
                                             icon |-> icon, color |-> color]),
              ret |-> t]

\* find_or_create_topic; icon and color are what random.choice returns.
find_or_create_topic(registry, topic_input, icon, color) ==
    LET t == normalized(topic_input)
        M == {k \in 1..Len(registry) : partial_match(registry[k], t)}
    IN  IF t \in Keys(registry) THEN [registry |-> registry, ret |-> t]
        ELSE IF M # {}
        THEN [registry |-> registry,
              ret |-> registry[CHOOSE k \in M : \A r \in M : k <= r].key]
        ELSE [registry |-> Append(registry, [key |-> t, name |-> display_name(t),
                                             icon |-> icon, color |-> color]),
              ret |-> t]

\* DEVOPS_TOPICS at the start: two entries, the display name of the first
\* holding a word its key does not.
DEVOPS_TOPICS ==
    <<[key |-> <<"a", "b">>, name |-> <<"A", "b", " ", "B", "a">>, icon |-> "git",
       color |-> "#f05032"],
      [key |-> <<"b", "b">>, name |-> <<"B", "b">>, icon |-> "linux", color |-> "#fcc624"]>>
NEW_TOPIC_COLORS == {"#e91e63", "#9c27b0"}
NEW_TOPIC_ICONS == {"book", "bulb"}

\* The topics given with --topic.
TopicInputs ==
    {<<>>, <<" ">>, <<"A", "B">>, <<"a">>, <<"b", "a">>, <<"a", "a">>, <<"A", " ", "a">>,
     <<" ", "a", "a", "-", "b">>, <<"b", "-", "a">>}

\* The text of a topic file: the marker, a generated section (one token,
\* labelled by the analysis it was generated from) and the tokens above.
Marker == Tok("marker", "", "", 0)
Gen(n) == Tok("gen", "", "", n)

\* generate_topic_template: <main id="content">, the marker, </main>
TopicTemplate == <<P("head"), WS, Marker, WS, EndMain, P("scripts")>>
NoFile == <<>>

\* The analyses a call is given; the last one quotes the marker text.
Quoting == 3
Analyses == {1, 2, Quoting}
SectionLists == {<<1>>, <<2>>, <<1, 2>>, <<2, 1>>, <<Quoting>>}

\* generate_section_html: a line break, the section, a line break
generate_section_html(analysis) ==
    <<WS, Gen(analysis)>> \o (IF analysis = Quoting THEN <<Marker>> ELSE <<>>) \o <<WS>>

\* new_content += generate_section_html(section, topic), for every section
RECURSIVE new_content_of(_)
new_content_of(sections) ==
    IF sections = <<>> THEN <<>>
    ELSE generate_section_html(Head(sections)) \o new_content_of(Tail(sections))

\* (variant: the new sections go after the marker)
update_topic_file_after_marker(page, sections) ==
    LET text == IF page = NoFile THEN TopicTemplate ELSE page
    IN  replace(text, <<Marker>>, <<Marker, WS>> \o new_content_of(sections), 1)

\* update_topic_file: ensure_topic_file writes the template when the file
\* does not exist; the sections are put before the marker, or before </main>
\* when the file holds no marker.
update_topic_file(page, sections) ==
    LET text == IF page = NoFile THEN TopicTemplate ELSE page
        new_content == new_content_of(sections)
    IN  IF contains(<<Marker>>, text)
        THEN replace(text, <<Marker>>, new_content \o <<WS, Marker>>, 1)
        ELSE replace(text, <<EndMain>>, new_content \o <<WS, EndMain>>, 1)

\* The topic file at the start: none, the template, a file without the marker.
Pages == {NoFile, TopicTemplate, <<P("head"), WS, EndMain>>}

InitTopics ==
    /\ file = EmptyShell
    /\ hist = <<>>
    /\ now = 0
    /\ topics \in {[registry |-> DEVOPS_TOPICS, page |-> page, page0 |-> page] :
                      page \in Pages}
    /\ content = <<>>
    /\ chunk_size = 1
    /\ chunks = NotChunked
    /\ procs = NoProcs
    /\ loop = NoLoop
    /\ session = NotStarted

FindOrCreateTopic(topic_input, icon, color) ==
    /\ Len(hist) < MaxOps
    /\ LET r == find_or_create_topic(topics.registry, topic_input, icon, color)
       IN  /\ topics' = [topics EXCEPT !.registry = r.registry]
           /\ hist' = Append(hist, [op |-> "find_or_create_topic", input |-> topic_input,
                                    pre |-> topics.registry, post |-> r.registry,
                                    ret |-> r.ret])
    /\ UNCHANGED <<file, now, content, chunk_size, chunks, procs, loop, session>>

UpdateTopicFile(sections) ==
    /\ Len(hist) < MaxOps
    /\ LET page == update_topic_file(topics.page, sections)
       IN  /\ topics' = [topics EXCEPT !.page = page]
           /\ hist' = Append(hist, [op |-> "update_topic_file", input |-> sections,
                                    pre |-> topics.page, post |-> page, ret |-> TRUE])
    /\ UNCHANGED <<file, now, content, chunk_size, chunks, procs, loop, session>>

NextTopics ==
    \/ \E topic_input \in TopicInputs, icon \in NEW_TOPIC_ICONS, color \in NEW_TOPIC_COLORS :
          FindOrCreateTopic(topic_input, icon, color)
    \/ \E sections \in SectionLists : UpdateTopicFile(sections)

SpecTopics == InitTopics /\ [][NextTopics]_vars

\* C29: find_or_create_topic returns a key of the registry as it is on return;
\* the entries the registry had are all there, unaltered and in their order;
\* at most one entry is added, and only when the normalized input is no key
\* and no entry matches it partially; a normalized input that is a key is
\* returned itself.
C29_RegistryOnlyGrows ==
    (hist # <<>> /\ LastCall.op = "find_or_create_topic") =>
        LET c == LastCall
            t == replace_char(strip(lower(c.input)), " ", "-")
            Matches(e) ==
                \/ contains(t, e.key) \/ contains(e.key, t)
                \/ contains(t, replace_char(lower(e.name), " ", "-"))
        IN  /\ \E k \in 1..Len(c.post) : c.post[k].key = c.ret
            /\ topics.registry = c.post
            /\ Len(c.post) >= Len(c.pre)
            /\ SubSeq(c.post, 1, Len(c.pre)) = c.pre
            /\ Len(c.post) <= Len(c.pre) + 1
            /\ Len(c.post) = Len(c.pre) + 1 =>
                  /\ \A k \in 1..Len(c.pre) : c.pre[k].key # t /\ ~Matches(c.pre[k])
                  /\ c.post[Len(c.post)].key = t
            /\ (\E k \in 1..Len(c.pre) : c.pre[k].key = t) => c.ret = t

\* A topic is created by one call and returned by the next, which is given
\* another text.
C29_Witness ==
    /\ Len(hist) = 2
    /\ hist[1].op = "find_or_create_topic" /\ hist[2].op = "find_or_create_topic"
    /\ Len(hist[1].post) = Len(hist[1].pre) + 1
    /\ hist[2].post = hist[1].post
    /\ hist[2].ret = hist[1].ret
    /\ hist[2].input # hist[1].input

\* The sections of one call as they stand in the file, and the text the
\* update_topic_file calls from the k-th on have put before the marker.
RECURSIVE SectionsText(_)
SectionsText(sections) ==
    IF sections = <<>> THEN <<>>
    ELSE <<WS, Gen(Head(sections)), WS>> \o SectionsText(Tail(sections))
RECURSIVE InsertedText(_)
InsertedText(k) ==
    IF k > Len(hist) THEN <<>>
    ELSE (IF hist[k].op = "update_topic_file"
          THEN SectionsText(hist[k].input) \o <<WS>> ELSE <<>>) \o InsertedText(k + 1)

Updates == {k \in 1..Len(hist) : hist[k].op = "update_topic_file"}

\* The topic file did not exist or was the template, and no section given to
\* update_topic_file quotes the marker.
C23_Case ==
    /\ Updates # {}
    /\ topics.page0 \in {NoFile, TopicTemplate}
    /\ \A k \in Updates : \A i \in 1..Len(hist[k].input) : hist[k].input[i] # Quoting

\* C23: after update_topic_file calls on a topic file created from the
\* template, with sections that do not hold the marker text, the file holds
\* the marker exactly once, every section inserted so far as it was inserted,
\* and the sections stand before the marker in the order of their insertion.
C23_MarkerInsertIsAppendOnly ==
    C23_Case =>
        /\ Occurrences(topics.page, <<Marker>>) = 1
        /\ \A k \in Updates :
              /\ Occurrences(topics.page, SectionsText(hist[k].input)) >= 1
              /\ IsSubsequence(hist[k].post, topics.page)
        /\ topics.page = <<P("head"), WS>> \o InsertedText(1)
                            \o <<Marker, WS, EndMain, P("scripts")>>

\* Two calls on a file that did not exist: two sections, then one.
C23_Witness ==
    /\ C23_Case
    /\ topics.page0 = NoFile
    /\ Len(hist) = 2
    /\ hist[1].op = "update_topic_file" /\ hist[1].input = <<2, 1>>
    /\ hist[2].op = "update_topic_file" /\ hist[2].input = <<1>>

=============================================================================
